---- MODULE Spec2Model ----
(***************************************************************************)
(* Model of the STO tracking client (src/sto/client.go): construction with *)
(* options, the debug toggle under the read-write lock, and QueryTrace     *)
(* with its validation, signing and bounded retry loop.                    *)
(***************************************************************************)
EXTENDS Integers, Sequences, FiniteSets, TLC

\* ------------------------------------------------------------------ bounds
\* longest option list handed to NewClient
MaxOpts == 2
\* longest waybill list of a request
MaxWaybills == 1
\* largest value handed to WithMaxRetries (the smallest is -1)
MaxRetriesOpt == 2

\* ------------------------------------------------------- program constants
\* DefaultTimeout, in seconds
DefaultTimeout == 30
\* DefaultMaxRetries
DefaultMaxRetries == 3
\* http.StatusOK
StatusOK == 200

\* a nil pointer, a nil error, a nil slice element
Nil == [nil |-> TRUE]

\* the goroutines that may call QueryTrace on the shared client, and the one
\* that toggles the debug flag
Callers == {"q1", "q2"}
Togglers == {"t1"}

\* ------------------------------------------------------------ construction
\* *http.Client values a caller can hand to WithHTTPClient: nil, or a client
\* of the caller's own making (Timeout 0 is http.Client's "no timeout")
CustomClients == {Nil, [custom |-> TRUE, Timeout |-> 0]}

\* timeouts, in seconds, a caller hands to WithTimeout
TimeoutChoices == {10}

Options ==
    {[op |-> "WithTimeout", timeout |-> t] : t \in TimeoutChoices}
    \cup {[op |-> "WithMaxRetries", maxRetries |-> n] : n \in -1..MaxRetriesOpt}
    \cup {[op |-> "WithHTTPClient", httpClient |-> h] : h \in CustomClients}

OptionSeqs == UNION {[1..n -> Options] : n \in 0..MaxOpts}

WithTimeout(cl, timeout) == [cl EXCEPT !.timeout = timeout]

WithMaxRetries(cl, maxRetries) == [cl EXCEPT !.maxRetries = maxRetries]

WithHTTPClient(cl, httpClient) == [cl EXCEPT !.httpClient = httpClient]

ApplyOption(cl, opt) ==
    CASE opt.op = "WithTimeout" -> WithTimeout(cl, opt.timeout)
      [] opt.op = "WithMaxRetries" -> WithMaxRetries(cl, opt.maxRetries)
      [] opt.op = "WithHTTPClient" -> WithHTTPClient(cl, opt.httpClient)

RECURSIVE ApplyOptions(_, _)
ApplyOptions(cl, opts) ==
    IF opts = <<>> THEN cl
    ELSE ApplyOptions(ApplyOption(cl, Head(opts)), Tail(opts))

\* a default transport that ignores the configured timeout
DefaultHTTPClientFixed(cl) == [custom |-> FALSE, Timeout |-> DefaultTimeout]

\* the transport NewClient makes when none was supplied
DefaultHTTPClient(cl) == [custom |-> FALSE, Timeout |-> cl.timeout]

NewClient(appKey, appSecret, fromCode, opts) ==
    LET c0 == [AppKey |-> appKey, AppSecret |-> appSecret, FromCode |-> fromCode,
               Debug |-> FALSE, httpClient |-> Nil,
               timeout |-> DefaultTimeout, maxRetries |-> DefaultMaxRetries]
        c1 == ApplyOptions(c0, opts)
    IN  IF c1.httpClient = Nil
        THEN [c1 EXCEPT !.httpClient = DefaultHTTPClient(c1)]
        ELSE c1

\* ---------------------------------------------------------------- requests
Orders == {"", "asc", "desc", "up"}
WaybillNos == {"w1"}
WaybillLists == UNION {[1..n -> WaybillNos] : n \in 0..MaxWaybills}
Requests == [Order : Orders, WaybillNoList : WaybillLists]

ValidationError(msg) == [kind |-> "validation", msg |-> msg]

\* Validate without the check of the waybill list
ValidateNoListCheck(r) ==
    IF r.Order # "" /\ r.Order # "asc" /\ r.Order # "desc"
    THEN ValidationError("order must be either 'asc' or 'desc'")
    ELSE Nil

\* Validate without the check of the order
ValidateNoOrderCheck(r) ==
    IF Len(r.WaybillNoList) = 0
    THEN ValidationError("waybillNoList cannot be empty")
    ELSE Nil

Validate(r) ==
    IF Len(r.WaybillNoList) = 0
    THEN ValidationError("waybillNoList cannot be empty")
    ELSE IF r.Order # "" /\ r.Order # "asc" /\ r.Order # "desc"
    THEN ValidationError("order must be either 'asc' or 'desc'")
    ELSE Nil

\* json.Marshal of the request: the fields in declaration order
Marshal(r) == <<"order", r.Order, "waybillNoList">> \o r.WaybillNoList

\* base64(md5(content + secret)): the digest is kept as the bytes it hashes
DataDigest(content, secret) == [md5 |-> content \o <<secret>>]

RequestURL(content, dataDigest, cl) ==
    [content |-> content, data_digest |-> dataDigest,
     from_appkey |-> cl.AppKey, from_code |-> cl.FromCode,
     to_appkey |-> "sto_trace_query", to_code |-> "sto_trace_query",
     api_name |-> "STO_TRACE_QUERY_COMMON"]

\* --------------------------------------------------------------- responses
IsSuccess(r) == r.Success = "true"

ShouldRetry(r) == r.NeedRetry = "true"

\* what the gateway can do with one attempt: the connection fails, the body
\* cannot be read, or a status arrives with a body that is either no JSON of
\* the response schema or a TraceQueryResponse
Bodies ==
    {[json |-> FALSE]}
    \cup {[json |-> TRUE, Success |-> s, NeedRetry |-> n] :
            s \in {"true", "false"}, n \in {"true", "false"}}

Replies ==
    {[kind |-> "connfail"], [kind |-> "readfail"]}
    \cup {[kind |-> "reply", status |-> s, body |-> [json |-> FALSE]] :
            s \in {StatusOK + 300}}
    \cup {[kind |-> "reply", status |-> StatusOK, body |-> b] : b \in Bodies}

RequestError(kind, n) == [kind |-> kind, attempt |-> n]

\* a pair doRequest returned: an error, or a response asking for a retry
IsFailed(out) == out # Nil /\ out.err # Nil
IsHinted(out) == out # Nil /\ out.err = Nil /\ out.resp.NeedRetry = "true"
IsClean(out) == out # Nil /\ out.err = Nil /\ out.resp.NeedRetry # "true"

\* the pair doRequest returns for attempt n when the gateway does `reply`;
\* the attempt's number stands for the identity of the error value and of the
\* decoded response (its requestId), so that two attempts' results differ
DoRequestResult(reply, n) ==
    IF reply.kind = "connfail"
    THEN [resp |-> Nil, err |-> RequestError("request failed", n)]
    ELSE IF reply.kind = "readfail"
    THEN [resp |-> Nil, err |-> RequestError("read response failed", n)]
    ELSE IF reply.status # StatusOK
    THEN [resp |-> Nil, err |-> RequestError("non-200 status", n)]
    ELSE IF ~reply.body.json
    THEN [resp |-> Nil, err |-> RequestError("unmarshal response failed", n)]
    ELSE [resp |-> [Success |-> reply.body.Success,
                    NeedRetry |-> reply.body.NeedRetry,
                    RequestId |-> n],
          err |-> Nil]

\* ------------------------------------------------------------------- state
VARIABLES
    c,          \* the shared *Client
    mu,         \* c.mu: [writer held, readers holding]
    tpc,        \* toggler -> position in EnableDebug / DisableDebug
    tval,       \* toggler -> the value its call writes to c.Debug
    pc,         \* caller -> position in QueryTrace / doRequest
    req,        \* caller -> the request of its call
    signed,     \* caller -> [content, dataDigest, requestURL], Nil before signing
    i,          \* caller -> the loop counter
    resp,       \* caller -> QueryTrace's resp
    lastErr,    \* caller -> QueryTrace's lastErr
    client,     \* caller -> doRequest's local client
    debug,      \* caller -> doRequest's local debug
    ret,        \* caller -> the returned pair, Nil until the call returns
    printed,    \* caller -> what the current loop iteration printed so far
    attempts,   \* caller -> number of client.Do calls made
    sleeps,     \* caller -> the seconds slept, in order
    lastOut,    \* caller -> the pair doRequest returned for the latest attempt
    nHint,      \* caller -> number of attempts that returned a retry-hinted response
    nErr,       \* caller -> number of attempts that returned an error
    seen,       \* caller -> the values c.Debug held, or was being given, at some
                \* time of the current loop iteration ({} outside one)
    sent        \* caller -> the distinct requests its attempts have sent

vars == <<c, mu, tpc, tval, pc, req, signed, i, resp, lastErr, client, debug,
          ret, printed, attempts, sleeps, lastOut, nHint, nErr, seen, sent>>

togglerVars == <<tpc, tval>>
callerVars == <<pc, req, signed, i, resp, lastErr, client, debug, ret,
                printed, attempts, sleeps, lastOut, nHint, nErr, sent>>

InitState(active) ==
    /\ mu = [writer |-> FALSE, readers |-> {}]
    /\ tpc = [t \in Togglers |-> "idle"]
    /\ tval = [t \in Togglers |-> FALSE]
    /\ pc = [p \in Callers |-> IF p \in active THEN "idle" ELSE "absent"]
    /\ req = [p \in Callers |-> Nil]
    /\ signed = [p \in Callers |-> Nil]
    /\ i = [p \in Callers |-> 0]
    /\ resp = [p \in Callers |-> Nil]
    /\ lastErr = [p \in Callers |-> Nil]
    /\ client = [p \in Callers |-> Nil]
    /\ debug = [p \in Callers |-> FALSE]
    /\ ret = [p \in Callers |-> Nil]
    /\ printed = [p \in Callers |-> {}]
    /\ attempts = [p \in Callers |-> 0]
    /\ sleeps = [p \in Callers |-> <<>>]
    /\ lastOut = [p \in Callers |-> Nil]
    /\ nHint = [p \in Callers |-> 0]
    /\ nErr = [p \in Callers |-> 0]
    /\ seen = [p \in Callers |-> {}]
    /\ sent = [p \in Callers |-> {}]

\* q1 is the one goroutine that calls QueryTrace; q2 never does
InitCallers == InitState({"q1"})

\* one caller and one toggler share a client built with any option list
Init ==
    /\ \E opts \in OptionSeqs : c = NewClient("key", "secret", "code", opts)
    /\ InitCallers

\* p is between the head of a loop iteration and the return of its doRequest
InAttempt(p) == pc[p] \in {"DoRequest", "RLock", "Read", "RUnlock", "Do"}

\* p is in the retry loop
InLoop(p) == pc[p] \in {"Loop", "DoRequest", "RLock", "Read", "RUnlock", "Do", "Check"}

\* ------------------------------------------------- EnableDebug/DisableDebug
\* c.mu.Lock() of EnableDebug (v = TRUE) or DisableDebug (v = FALSE)
SetDebugLock(t, v) ==
    /\ tpc[t] = "idle"
    /\ ~mu.writer /\ mu.readers = {}
    /\ mu' = [mu EXCEPT !.writer = TRUE]
    /\ tpc' = [tpc EXCEPT ![t] = "write"]
    /\ tval' = [tval EXCEPT ![t] = v]
    /\ seen' = [p \in Callers |-> IF InAttempt(p) THEN seen[p] \cup {v} ELSE seen[p]]
    /\ UNCHANGED <<c, callerVars>>

EnableDebug(t) == SetDebugLock(t, TRUE)

DisableDebug(t) == SetDebugLock(t, FALSE)

\* c.Debug = v
SetDebugWrite(t) ==
    /\ tpc[t] = "write"
    /\ c' = [c EXCEPT !.Debug = tval[t]]
    /\ tpc' = [tpc EXCEPT ![t] = "unlock"]
    /\ UNCHANGED <<mu, tval, callerVars, seen>>

\* the deferred c.mu.Unlock()
SetDebugUnlock(t) ==
    /\ tpc[t] = "unlock"
    /\ mu' = [mu EXCEPT !.writer = FALSE]
    /\ tpc' = [tpc EXCEPT ![t] = "idle"]
    /\ UNCHANGED <<c, tval, callerVars, seen>>

\* --------------------------------------------------------------- QueryTrace
\* the values a read of c.Debug made without the lock can see: the stored
\* one, or the one a toggler is about to store (the read races that write)
UnlockedDebugReads ==
    {c.Debug} \cup {tval[t] : t \in {u \in Togglers : tpc[u] = "write"}}

\* a loop that stops one attempt short
LoopCondShort(n, maxRetries) == n < maxRetries

LoopCond(n, maxRetries) == n <= maxRetries

\* a break on the success flag instead of the retry hint
BreakCondOnSuccess(r, e) == e = Nil /\ IsSuccess(r)

\* a break on any decoded response, retry hint or not
BreakCondOnResponse(r, e) == e = Nil

\* a break that also gives up on a body that does not decode
BreakCondDecodeTerminal(r, e) ==
    \/ e = Nil /\ ~ShouldRetry(r)
    \/ e # Nil /\ e.kind = "unmarshal response failed"

\* a break that takes a successful response as final, retry hint or not
BreakCondSuccessFinal(r, e) == e = Nil /\ (IsSuccess(r) \/ ~ShouldRetry(r))

BreakCond(r, e) == e = Nil /\ ~ShouldRetry(r)

\* a sleep after the last attempt too
SleepCondAlways(n, maxRetries) == n <= maxRetries

SleepCond(n, maxRetries) == n < maxRetries

\* a response printed only once its status has passed the check
PrintsResponseIfOK(d, reply) ==
    d /\ reply.kind = "reply" /\ reply.status = StatusOK

\* doRequest prints the status and body under its local debug once the body
\* was read, before it looks at the status
PrintsResponse(d, reply) == d /\ reply.kind = "reply"

\* an attempt that signs again, with the client's fields as they are now
AttemptRequestResigned(sg, cl) ==
    RequestURL(sg.content, DataDigest(sg.content, cl.AppSecret), cl)

\* the request an attempt sends: a GET of the requestURL that QueryTrace built
\* before the loop and passes to every doRequest
AttemptRequest(sg, cl) == sg.requestURL

\* a backoff that doubles
BackoffDoubling(n) == 2 ^ n

\* time.Duration(i+1) * time.Second, in seconds
Backoff(n) == n + 1

\* an assignment that keeps the earlier response when the attempt fails
AssignResultKeepResp(oldResp, oldErr, out) ==
    [resp |-> IF out.resp = Nil THEN oldResp ELSE out.resp, err |-> out.err]

\* resp, lastErr = c.doRequest(...)
AssignResult(oldResp, oldErr, out) == [resp |-> out.resp, err |-> out.err]

\* locals kept in one place for all calls, as fields of the shared client
\* would be
SlotOnClient(p) == "q1"

\* where a call keeps i, resp and lastErr: they are locals of QueryTrace, so
\* each call has its own
Slot(p) == p

\* return resp, lastErr
Return(p) ==
    /\ ret' = [ret EXCEPT ![p] = [resp |-> resp[Slot(p)], err |-> lastErr[Slot(p)]]]
    /\ pc' = [pc EXCEPT ![p] = "done"]

\* QueryTrace(r) up to the loop: validation, serialization, signature, URL
Call(p, r) ==
    /\ pc[p] = "idle"
    /\ req' = [req EXCEPT ![p] = r]
    /\ IF Validate(r) # Nil
       THEN /\ ret' = [ret EXCEPT ![p] =
                        [resp |-> Nil,
                         err |-> [kind |-> "invalid request", cause |-> Validate(r)]]]
            /\ pc' = [pc EXCEPT ![p] = "done"]
            /\ UNCHANGED signed
       ELSE LET content == Marshal(r)
                dataDigest == DataDigest(content, c.AppSecret)
            IN  /\ signed' = [signed EXCEPT ![p] =
                               [content |-> content, dataDigest |-> dataDigest,
                                requestURL |-> RequestURL(content, dataDigest, c)]]
                /\ pc' = [pc EXCEPT ![p] = "Loop"]
                /\ UNCHANGED ret
    /\ UNCHANGED <<c, mu, togglerVars, i, resp, lastErr, client, debug, printed,
                   attempts, sleeps, lastOut, nHint, nErr, seen, sent>>

\* the loop head: i <= c.maxRetries, and the retry message under c.Debug
Loop(p) ==
    /\ pc[p] = "Loop"
    /\ IF LoopCond(i[Slot(p)], c.maxRetries)
       THEN /\ \E d \in (IF i[Slot(p)] > 0 THEN UnlockedDebugReads ELSE {FALSE}) :
                 printed' = [printed EXCEPT ![p] = IF d THEN {"retrying"} ELSE {}]
            /\ pc' = [pc EXCEPT ![p] = "DoRequest"]
            /\ seen' = [seen EXCEPT ![p] = UnlockedDebugReads]
            /\ UNCHANGED ret
       ELSE /\ Return(p)
            /\ UNCHANGED <<printed, seen>>
    /\ UNCHANGED <<c, mu, togglerVars, req, signed, i, resp, lastErr, client,
                   debug, attempts, sleeps, lastOut, nHint, nErr, sent>>

\* doRequest's entry: the request is printed under c.Debug, then built
DoRequest(p) ==
    /\ pc[p] = "DoRequest"
    /\ \E d \in UnlockedDebugReads :
         printed' = [printed EXCEPT ![p] =
            IF d THEN @ \cup {"url", "payload", "signature"} ELSE @]
    /\ pc' = [pc EXCEPT ![p] = "RLock"]
    /\ UNCHANGED <<c, mu, togglerVars, req, signed, i, resp, lastErr, client,
                   debug, ret, attempts, sleeps, lastOut, nHint, nErr, seen, sent>>

\* c.mu.RLock()
RLock(p) ==
    /\ pc[p] = "RLock"
    /\ ~mu.writer
    /\ mu' = [mu EXCEPT !.readers = @ \cup {p}]
    /\ pc' = [pc EXCEPT ![p] = "Read"]
    /\ UNCHANGED <<c, togglerVars, req, signed, i, resp, lastErr, client, debug,
                   ret, printed, attempts, sleeps, lastOut, nHint, nErr, seen, sent>>

\* client := c.httpClient; debug := c.Debug
Read(p) ==
    /\ pc[p] = "Read"
    /\ client' = [client EXCEPT ![p] = c.httpClient]
    /\ debug' = [debug EXCEPT ![p] = c.Debug]
    /\ pc' = [pc EXCEPT ![p] = "RUnlock"]
    /\ UNCHANGED <<c, mu, togglerVars, req, signed, i, resp, lastErr, ret,
                   printed, attempts, sleeps, lastOut, nHint, nErr, seen, sent>>

\* c.mu.RUnlock()
RUnlock(p) ==
    /\ pc[p] = "RUnlock"
    /\ mu' = [mu EXCEPT !.readers = @ \ {p}]
    /\ pc' = [pc EXCEPT ![p] = "Do"]
    /\ UNCHANGED <<c, togglerVars, req, signed, i, resp, lastErr, client, debug,
                   ret, printed, attempts, sleeps, lastOut, nHint, nErr, seen, sent>>

\* client.Do(req) and the rest of doRequest, whose locals end with it, then
\* the assignment of its result
Do(p, reply) ==
    /\ pc[p] = "Do"
    /\ LET n == attempts[p] + 1
           out == DoRequestResult(reply, n)
           new == AssignResult(resp[Slot(p)], lastErr[Slot(p)], out)
       IN  /\ attempts' = [attempts EXCEPT ![p] = n]
           /\ printed' = [printed EXCEPT ![p] =
                IF PrintsResponse(debug[p], reply)
                THEN @ \cup {"status", "body"} ELSE @]
           /\ resp' = [resp EXCEPT ![Slot(p)] = new.resp]
           /\ lastErr' = [lastErr EXCEPT ![Slot(p)] = new.err]
           /\ lastOut' = [lastOut EXCEPT ![p] = out]
           /\ nHint' = [nHint EXCEPT ![p] = IF IsHinted(out) THEN @ + 1 ELSE @]
           /\ nErr' = [nErr EXCEPT ![p] = IF IsFailed(out) THEN @ + 1 ELSE @]
           /\ sent' = [sent EXCEPT ![p] = @ \cup {AttemptRequest(signed[p], c)}]
    /\ client' = [client EXCEPT ![p] = Nil]
    /\ debug' = [debug EXCEPT ![p] = FALSE]
    /\ pc' = [pc EXCEPT ![p] = "Check"]
    /\ UNCHANGED <<c, mu, togglerVars, req, signed, i, ret, sleeps, seen>>

\* the loop body after doRequest: break, or sleep and go round again
Check(p) ==
    /\ pc[p] = "Check"
    /\ IF BreakCond(resp[Slot(p)], lastErr[Slot(p)])
       THEN /\ Return(p)
            /\ UNCHANGED <<i, sleeps>>
       ELSE /\ sleeps' = [sleeps EXCEPT ![p] =
                IF SleepCond(i[Slot(p)], c.maxRetries)
                THEN Append(@, Backoff(i[Slot(p)])) ELSE @]
            /\ i' = [i EXCEPT ![Slot(p)] = @ + 1]
            /\ pc' = [pc EXCEPT ![p] = "Loop"]
            /\ UNCHANGED ret
    /\ printed' = [printed EXCEPT ![p] = {}]
    /\ seen' = [seen EXCEPT ![p] = {}]
    /\ UNCHANGED <<c, mu, togglerVars, req, signed, resp, lastErr, client, debug,
                   attempts, lastOut, nHint, nErr, sent>>

Next ==
    \/ \E t \in Togglers : EnableDebug(t)
    \/ \E t \in Togglers : DisableDebug(t)
    \/ \E t \in Togglers : SetDebugWrite(t)
    \/ \E t \in Togglers : SetDebugUnlock(t)
    \/ \E p \in Callers, r \in Requests : Call(p, r)
    \/ \E p \in Callers : Loop(p)
    \/ \E p \in Callers : DoRequest(p)
    \/ \E p \in Callers : RLock(p)
    \/ \E p \in Callers : Read(p)
    \/ \E p \in Callers : RUnlock(p)
    \/ \E p \in Callers, reply \in Replies : Do(p, reply)
    \/ \E p \in Callers : Check(p)

Spec == Init /\ [][Next]_vars

\* the callers of FairInit; q2, which never calls, has no step to be fair to
FairCallers == {"q1"}

\* the scheduling QueryTrace runs under: a caller that has started takes its
\* next step, each HTTP attempt returns, a caller waiting in RLock gets the
\* lock when the writer lets go of it (an RWMutex wakes the waiting readers on
\* Unlock), and a toggler that took the lock writes and unlocks. Nobody is made
\* to call QueryTrace, EnableDebug or DisableDebug.
Fairness ==
    /\ \A p \in FairCallers :
         /\ WF_vars(\/ Loop(p) \/ DoRequest(p) \/ Read(p) \/ RUnlock(p) \/ Check(p)
                    \/ \E reply \in Replies : Do(p, reply))
         /\ SF_vars(RLock(p))
    /\ \A t \in Togglers : WF_vars(SetDebugWrite(t) \/ SetDebugUnlock(t))

\* the same system under Fairness, the client built by any list of
\* WithMaxRetries options (the one option the loop reads)
RetryOptionSeqs ==
    {o \in OptionSeqs : \A k \in 1..Len(o) : o[k].op = "WithMaxRetries"}

FairInit ==
    /\ \E opts \in RetryOptionSeqs : c = NewClient("key", "secret", "code", opts)
    /\ InitCallers

FairSpec == FairInit /\ [][Next]_vars /\ Fairness

\* ------------------------------------------------------- concurrent calls
\* two goroutines call QueryTrace on one client built with WithMaxRetries(1);
\* nobody toggles the debug flag
TwoInit ==
    /\ c = NewClient("key", "secret", "code",
                     <<[op |-> "WithMaxRetries", maxRetries |-> 1]>>)
    /\ InitState(Callers)

NextCalls ==
    \/ \E p \in Callers, r \in Requests : Call(p, r)
    \/ \E p \in Callers : Loop(p)
    \/ \E p \in Callers : DoRequest(p)
    \/ \E p \in Callers : RLock(p)
    \/ \E p \in Callers : Read(p)
    \/ \E p \in Callers : RUnlock(p)
    \/ \E p \in Callers, reply \in Replies : Do(p, reply)
    \/ \E p \in Callers : Check(p)

TwoSpec == TwoInit /\ [][NextCalls]_vars

\* ---------------------------------------------------- exported field writes
\* the client's exported identity fields and a second value for each
CredentialFields == {"AppKey", "AppSecret", "FromCode"}
OtherValue == "other"

\* client code assigns c.AppKey, c.AppSecret or c.FromCode while a call is
\* past its signing and in the retry loop
SetField(f) ==
    /\ \E p \in Callers : InLoop(p)
    /\ c[f] # OtherValue
    /\ c' = [c EXCEPT ![f] = OtherValue]
    /\ UNCHANGED <<mu, togglerVars, callerVars, seen>>

NextFields ==
    \/ Next
    \/ \E f \in CredentialFields : SetField(f)

\* the system of FairInit, with the field writes added
FieldSpec == FairInit /\ [][NextFields]_vars

\* ------------------------------------------------------------------ claims
Started(p) == req[p] # Nil
Returned(p) == pc[p] = "done"
ValidationFailed(p) ==
    /\ Returned(p)
    /\ ret[p].resp = Nil
    /\ ret[p].err # Nil
    /\ ret[p].err.kind = "invalid request"

\* C1: a request with an empty waybill list, whatever its order and the
\* client's configuration, returns a validation error with a nil response, and
\* no HTTP attempt and no sleep is made for it.
C1_EmptyListRejected ==
    \A p \in Callers :
        (Started(p) /\ Len(req[p].WaybillNoList) = 0) =>
            /\ ValidationFailed(p)
            /\ attempts[p] = 0
            /\ sleeps[p] = <<>>

C1_Witness ==
    \E p \in Callers :
        /\ Started(p) /\ Len(req[p].WaybillNoList) = 0 /\ req[p].Order = "asc"
        /\ Returned(p)
        /\ c.maxRetries # DefaultMaxRetries

\* C2: a request whose order is none of "", "asc", "desc" returns a validation
\* error with a nil response and no HTTP attempt; a request with a non-empty
\* waybill list and one of those orders passes validation: it is signed and
\* goes into the sending loop, never returns a validation error, and with a
\* non-negative maxRetries does not return before an attempt was made.
C2_OrderValidated ==
    \A p \in Callers :
        Started(p) =>
            IF req[p].Order \notin {"", "asc", "desc"}
            THEN ValidationFailed(p) /\ attempts[p] = 0
            ELSE Len(req[p].WaybillNoList) > 0 =>
                    /\ signed[p] # Nil
                    /\ InLoop(p) \/ Returned(p)
                    /\ ~ValidationFailed(p)
                    /\ (Returned(p) /\ c.maxRetries >= 0) => attempts[p] >= 1

C2_Witness ==
    \E p \in Callers :
        /\ Started(p) /\ req[p].Order = "up" /\ Len(req[p].WaybillNoList) > 0
        /\ Returned(p)

\* every attempt made so far returned a well-formed retry-hinted response
AllHinted(p) == attempts[p] >= 1 /\ nHint[p] = attempts[p]

\* C3: when every attempt of a call returned a response whose needRetry is
\* "true", the call returns after exactly maxRetries + 1 attempts, and returns
\* the last attempt's response with that attempt's nil error.
C3_RetryBound ==
    \A p \in Callers :
        (Returned(p) /\ AllHinted(p)) =>
            /\ attempts[p] = c.maxRetries + 1
            /\ ret[p] = lastOut[p]
            /\ ret[p].err = Nil
            /\ ret[p].resp.RequestId = attempts[p]

C3_Witness ==
    \E p \in Callers :
        /\ Returned(p) /\ AllHinted(p)
        /\ c.maxRetries = DefaultMaxRetries
        /\ attempts[p] = 4

\* attempt 1 returned a retry-hinted response and attempt 2 a clean one
HintThenClean(p) == attempts[p] = 2 /\ nHint[p] = 1 /\ IsClean(lastOut[p])

\* C4: when attempt 1 returned a retry-hinted response and attempt 2 a
\* response with no error and no retry hint, the call has slept once, makes no
\* further attempt (it is leaving the loop or has returned), and returns the
\* response of attempt 2 with a nil error.
C4_RetryTermination ==
    \A p \in Callers :
        HintThenClean(p) =>
            /\ pc[p] \in {"Check", "done"}
            /\ Len(sleeps[p]) = 1
            /\ Returned(p) =>
                 /\ ret[p] = [resp |-> lastOut[p].resp, err |-> Nil]
                 /\ ret[p].resp.RequestId = 2

C4_Witness ==
    \E p \in Callers :
        /\ HintThenClean(p) /\ Returned(p)
        /\ c.maxRetries >= 2

\* C5: the call never returns after an attempt that ended in an error (a
\* transport error, a non-200 status, a body that does not decode) or in a
\* retry-hinted response while fewer than maxRetries retries have been made:
\* it returns after such an attempt only when that was attempt maxRetries + 1.
C5_RetryableRetried ==
    \A p \in Callers :
        (Returned(p) /\ (IsFailed(lastOut[p]) \/ IsHinted(lastOut[p]))) =>
            attempts[p] = c.maxRetries + 1

C5_Witness ==
    \E p \in Callers :
        /\ pc[p] = "Do" /\ attempts[p] = 2
        /\ IsHinted(lastOut[p]) /\ nErr[p] = 1

\* the next step of p reads c.Debug or c.httpClient
ReadsShared(p) ==
    \/ pc[p] = "Loop" /\ i[p] > 0 /\ LoopCond(i[p], c.maxRetries)
    \/ pc[p] = "DoRequest"
    \/ pc[p] = "Read"

\* C6: whenever a toggler is about to write c.Debug, every caller whose next
\* step reads c.Debug or c.httpClient holds the read lock (so none is at such
\* a read: the write lock excludes readers), and no write of the flag is
\* concurrent with an unlocked read of it.
C6_NoUnlockedReadDuringWrite ==
    \A p \in Callers, t \in Togglers :
        (tpc[t] = "write" /\ ReadsShared(p)) => p \in mu.readers

\* a count bounded by n: by 0 when n is negative
AtMost(n) == IF n < 0 THEN 0 ELSE n

\* the bounds of C7 on the attempts and sleeps of a call

C7_Bounded ==
    \A p \in Callers :
        /\ attempts[p] <= AtMost(c.maxRetries + 1)
        /\ Len(sleeps[p]) <= AtMost(c.maxRetries)
        /\ Len(sleeps[p]) <= attempts[p]
        /\ Returned(p) => Len(sleeps[p]) <= AtMost(attempts[p] - 1)

\* C7: a call that has started returns, given the scheduling of Fairness; it
\* makes at most maxRetries + 1 attempts and at most maxRetries sleeps (none
\* of either when maxRetries is negative), every sleep is followed by an
\* attempt, and none follows the final attempt.
C7_Terminates ==
    /\ []C7_Bounded
    /\ \A p \in Callers : (Started(p) ~> Returned(p))

C7_Witness ==
    \E p \in Callers :
        /\ Returned(p)
        /\ c.maxRetries = DefaultMaxRetries
        /\ attempts[p] = c.maxRetries + 1
        /\ Len(sleeps[p]) = c.maxRetries

\* C8: the pair a call returns after an attempt is the pair the last attempt
\* produced: that attempt's error with a nil response, or that attempt's
\* response with a nil error, never a response of one attempt with the error
\* of another.
C8_ReturnsLastOutcome ==
    \A p \in Callers :
        (Returned(p) /\ attempts[p] >= 1) =>
            /\ ret[p] = lastOut[p]
            /\ IsFailed(lastOut[p]) =>
                 ret[p].resp = Nil /\ ret[p].err.attempt = attempts[p]
            /\ ~IsFailed(lastOut[p]) =>
                 ret[p].err = Nil /\ ret[p].resp.RequestId = attempts[p]

\* an earlier attempt returned a retry-hinted response and the final one failed
C8_Witness ==
    \E p \in Callers :
        /\ Returned(p) /\ nHint[p] >= 1 /\ IsFailed(lastOut[p])

\* the latest attempt got a 200 whose body does not decode
DecodeFailed(p) ==
    IsFailed(lastOut[p]) /\ lastOut[p].err.kind = "unmarshal response failed"

\* no further attempt is under way: the call is leaving the loop or has returned
NoFurtherAttempt(p) ==
    \/ pc[p] \in {"Check", "done"}
    \/ pc[p] = "Loop" /\ ~LoopCond(i[p], c.maxRetries)

\* C9 as claimed: after an attempt whose 200 body fails to decode, the call
\* goes to Done and makes no further attempt.
C9_DecodeFailureTerminal ==
    \A p \in Callers : DecodeFailed(p) => NoFurtherAttempt(p)

\* C9: a decode failure is not terminal. The call returns only on a
\* validation failure, after a response without a retry hint, or when the
\* retries are exhausted (the loop counter has passed maxRetries); after an
\* attempt whose body fails to decode it returns only in the last case.
C9_TerminalCases ==
    \A p \in Callers :
        Returned(p) =>
            /\ \/ ValidationFailed(p)
               \/ IsClean(lastOut[p])
               \/ ~LoopCond(i[p], c.maxRetries)
            /\ DecodeFailed(p) => ~LoopCond(i[p], c.maxRetries)

\* a decode failure was followed by another attempt
C9_Witness ==
    \E p \in Callers :
        /\ pc[p] = "DoRequest" /\ attempts[p] = 1 /\ DecodeFailed(p)

\* C10 as claimed: every HTTP attempt goes through a transport whose timeout
\* is the configured one, whatever options built the client.
C10_TimeoutEnforced ==
    \A p \in Callers : pc[p] = "Do" => client[p].Timeout = c.timeout

\* C10: every HTTP attempt goes through the client's transport; when the
\* options left no transport of the caller's (none supplied, or nil), that is
\* the transport NewClient made, whose timeout is the configured one (the
\* WithTimeout value, 30 s by default) in whatever order the options came. A
\* transport supplied with WithHTTPClient is used as it is.
C10_DefaultTransportTimeout ==
    /\ c.httpClient # Nil
    /\ \A p \in Callers :
         pc[p] = "Do" =>
            /\ client[p] = c.httpClient
            /\ ~client[p].custom => client[p].Timeout = c.timeout
            /\ client[p].custom => client[p] \in CustomClients

C10_Witness ==
    \E p \in Callers :
        /\ pc[p] = "Do" /\ ~client[p].custom
        /\ c.timeout # DefaultTimeout /\ client[p].Timeout = c.timeout

\* the attempt of p's current iteration is over: doRequest has returned
AttemptOver(p) == pc[p] = "Check"

\* debug mode was enabled (disabled) for the whole of p's current iteration
EnabledThroughout(p) == seen[p] = {TRUE}
DisabledThroughout(p) == seen[p] = {FALSE}

\* the latest attempt got a response and read its body
ResponseRead(p) ==
    ~(IsFailed(lastOut[p])
      /\ lastOut[p].err.kind \in {"request failed", "read response failed"})

\* C11 as claimed: an attempt made while debug mode is enabled emits all five
\* items, the URL, the payload, the signature, the response status and the
\* response body; an attempt made while it is disabled emits none.
C11_AllFiveItems ==
    \A p \in Callers :
        AttemptOver(p) =>
            /\ EnabledThroughout(p) =>
                 {"url", "payload", "signature", "status", "body"} \subseteq printed[p]
            /\ DisabledThroughout(p) => printed[p] = {}

\* what C11 holds of an attempt that is over
C11_Items ==
    \A p \in Callers :
        AttemptOver(p) =>
            /\ EnabledThroughout(p) =>
                 /\ {"url", "payload", "signature"} \subseteq printed[p]
                 /\ ResponseRead(p) => {"status", "body"} \subseteq printed[p]
                 /\ ~ResponseRead(p) => printed[p] \cap {"status", "body"} = {}
            /\ DisabledThroughout(p) => printed[p] = {}

\* C11: debug mode is disabled in the state NewClient leaves, whatever the
\* options. An attempt made while it is enabled emits the URL, the payload and
\* the signature, and emits the response status and body exactly when a
\* response arrived and its body was read (whatever the status); an attempt
\* made while it is disabled emits nothing.
C11_DebugOutput == (c.Debug = FALSE) /\ []C11_Items

\* debug mode enabled, a retry that got a non-200 answer: five items
C11_Witness ==
    \E p \in Callers :
        /\ AttemptOver(p) /\ EnabledThroughout(p) /\ attempts[p] = 2
        /\ IsFailed(lastOut[p]) /\ lastOut[p].err.kind = "non-200 status"
        /\ {"url", "payload", "signature", "status", "body"} \subseteq printed[p]

RECURSIVE SumSeq(_)
SumSeq(q) == IF q = <<>> THEN 0 ELSE Head(q) + SumSeq(Tail(q))

\* C13: no sleep precedes attempt 1; the k-th sleep of a call lasts k seconds
\* and comes between attempt k and attempt k + 1, so a call that is making
\* attempt n + 1 has slept n times; a call that has returned has not slept
\* after its last attempt, and one that exhausted its retries has slept
\* 1 + 2 + ... + maxRetries seconds in all.
C13_LinearBackoff ==
    \A p \in Callers :
        /\ \A k \in 1..Len(sleeps[p]) : sleeps[p][k] = k
        /\ attempts[p] = 0 => sleeps[p] = <<>>
        /\ InAttempt(p) => Len(sleeps[p]) = attempts[p]
        /\ (Returned(p) /\ attempts[p] >= 1) => Len(sleeps[p]) = attempts[p] - 1
        /\ (Returned(p) /\ attempts[p] = c.maxRetries + 1) =>
              2 * SumSeq(sleeps[p]) = c.maxRetries * (c.maxRetries + 1)

C13_Witness ==
    \E p \in Callers :
        /\ Returned(p) /\ ~IsClean(lastOut[p])
        /\ c.maxRetries = DefaultMaxRetries
        /\ sleeps[p] = <<1, 2, 3>>

\* C14: a decoded response whose needRetry is not "true" ends the call at
\* once and is returned with a nil error, whatever its success flag; one whose
\* needRetry is "true" is retried while retries remain, whatever its success
\* flag: the call returns after it only when it was attempt maxRetries + 1.
C14_HintDecides ==
    \A p \in Callers :
        (lastOut[p] # Nil /\ lastOut[p].err = Nil) =>
            IF lastOut[p].resp.NeedRetry # "true"
            THEN /\ pc[p] \in {"Check", "done"}
                 /\ Returned(p) => ret[p] = [resp |-> lastOut[p].resp, err |-> Nil]
            ELSE Returned(p) => attempts[p] = c.maxRetries + 1

\* a response with success "true" and needRetry "true" was retried
C14_Witness ==
    \E p \in Callers :
        /\ InAttempt(p) /\ attempts[p] = 1
        /\ IsHinted(lastOut[p]) /\ lastOut[p].resp.Success = "true"

\* C16: a call with a request that passes validation returns only after at
\* least one HTTP attempt, and never returns a nil response with a nil error.
C16_AttemptBeforeReturn ==
    \A p \in Callers :
        (Returned(p) /\ Validate(req[p]) = Nil) =>
            /\ attempts[p] >= 1
            /\ ~(ret[p].resp = Nil /\ ret[p].err = Nil)

\* what QueryTrace computed before the loop is the serialized request, its
\* digest and the URL that carries both
SignedOnce(p) ==
    signed[p] # Nil =>
        /\ signed[p].content = Marshal(req[p])
        /\ signed[p].requestURL.content = signed[p].content
        /\ signed[p].requestURL.data_digest = signed[p].dataDigest

C15_OneRequest ==
    \A p \in Callers :
        /\ SignedOnce(p)
        /\ attempts[p] = 0 => sent[p] = {}
        /\ attempts[p] >= 1 => sent[p] = {signed[p].requestURL}

C15_SignedKept ==
    \A p \in Callers : signed[p] # Nil => signed'[p] = signed[p]

\* C15: the content, digest and URL of a call are computed once before its
\* first attempt and never change afterwards, and every attempt of the call
\* sends that one URL, whatever retries, debug toggles and writes to the
\* client's AppKey, AppSecret and FromCode happen during the call.
C15_SameRequest == []C15_OneRequest /\ [][C15_SignedKept]_vars

\* a second attempt was made after the secret and the key were changed and
\* debug was switched on, and it sent what the first one sent
C15_Witness ==
    \E p \in Callers :
        /\ attempts[p] = 2
        /\ c.AppSecret = OtherValue /\ c.AppKey = OtherValue /\ c.Debug
        /\ signed[p].dataDigest = DataDigest(signed[p].content, "secret")
        /\ sent[p] = {signed[p].requestURL}

\* what a call has done follows from the outcomes of its own attempts: it has
\* made at most maxRetries + 1 of them, all but a final clean one retryable,
\* it has slept 1, 2, ... between them, and once returned it stopped at its
\* own clean outcome or at attempt maxRetries + 1 and returns the pair of its
\* own latest attempt
C17_OwnOutcomes ==
    \A p \in Callers :
        LET clean == lastOut[p] # Nil /\ IsClean(lastOut[p])
        IN  /\ attempts[p] <= c.maxRetries + 1
            /\ nHint[p] + nErr[p] = attempts[p] - (IF clean THEN 1 ELSE 0)
            /\ \A k \in 1..Len(sleeps[p]) : sleeps[p][k] = k
            /\ InAttempt(p) => Len(sleeps[p]) = attempts[p]
            /\ (Returned(p) /\ signed[p] # Nil) =>
                  /\ clean \/ attempts[p] = c.maxRetries + 1
                  /\ Len(sleeps[p]) = attempts[p] - 1
                  /\ ret[p] = lastOut[p]
                  /\ ret[p].resp # Nil => ret[p].resp.RequestId = attempts[p]

\* a step of one call leaves everything that belongs to the other calls alone
C17_Frame ==
    \A p \in Callers :
        pc'[p] = pc[p] =>
            /\ i'[p] = i[p] /\ resp'[p] = resp[p] /\ lastErr'[p] = lastErr[p]
            /\ attempts'[p] = attempts[p] /\ sleeps'[p] = sleeps[p]
            /\ ret'[p] = ret[p] /\ signed'[p] = signed[p]

\* C17: with two calls running at once on one client, each call's attempts,
\* sleeps and returned pair follow from the outcomes of its own attempts and
\* maxRetries alone, and no step of one call changes the other's counter,
\* response, error, attempts, sleeps or result.
C17_Independent == []C17_OwnOutcomes /\ [][C17_Frame]_vars

\* both calls are in the loop at once, in different rounds and with
\* different outcomes behind them
C17_Witness ==
    /\ pc["q1"] = "Check" /\ attempts["q1"] = 2 /\ IsHinted(lastOut["q1"])
    /\ pc["q2"] = "Do" /\ attempts["q2"] = 1 /\ IsFailed(lastOut["q2"])

====
